---- MODULE Spec2Model ----
(***************************************************************************)
(* A model of the qctools scanner core: the DFA runtime and its builder    *)
(* (parser/src/dfa.rs, duplicated in lexer/src/dfa.rs) and the             *)
(* multi-automaton maximal-munch driver (parser/src/lexer.rs).             *)
(*                                                                         *)
(* Rust's Option<T> is a sequence of length 0 (None) or 1 (Some(x)).       *)
(* State indices are 0-based as in the source; TLA+ sequences are 1-based, *)
(* so state idx of a table is states[idx + 1].                             *)
(***************************************************************************)
EXTENDS Integers, Sequences, FiniteSets, TLC

VARIABLES
    lexer,       \* Lexer { automata, active_automata, token_text }
    text_kinds,  \* the kinds for which the caller's TokenKind::has_text() is true
    registered,  \* the vector of (Automaton, K) that was passed to Lexer::new
    script,      \* Option: the symbols a test's iterator yields before its sentinel
    fed,         \* the items of the `symbols` iterator consumed by lex so far
    out,         \* the tokens yielded by lex so far, in order
    boundaries,  \* history, one entry per token: the buffer taken (run) and the
                 \* position in `fed` of the item that triggered the boundary (at)
    builder,     \* Option<AutomatonBuilder> under construction
    automaton,   \* Option<Automaton> driven directly through its public API
    built,       \* Option: `automaton` as build() returned it
    keyword_of,  \* Option: the sequence `automaton` was built from by keyword_automaton
    calls,       \* history: the calls made on `automaton` since build()
    last_call    \* Option: the latest call on `builder`, with its arguments and
                 \* the state table it found (before)

vars ==
    <<lexer, text_kinds, registered, script, fed, out, boundaries,
      builder, automaton, built, keyword_of, calls, last_call>>

(***************************************************************************)
(* Bounds of the model.                                                    *)
(***************************************************************************)
MaxItems == 4        \* items (symbols, then the sentinel) of a free scan input
MaxAutomata == 2     \* automata registered with one Lexer drawn from the pool
MaxKeyword == 3      \* longest keyword given to keyword_automaton on its own
MaxCalls == 4        \* transition/reset calls made on one automaton on its own
MaxBuilderCalls == 3 \* add_state/add_transition calls made on one builder

(***************************************************************************)
(* Option<T>                                                               *)
(***************************************************************************)
None == <<>>
Some(x) == <<x>>
is_some(o) == Len(o) = 1
is_none(o) == Len(o) = 0
unwrap(o) == o[1]

SetMin(S) == CHOOSE x \in S : \A y \in S : x <= y
SetMax(S) == CHOOSE x \in S : \A y \in S : y <= x

RECURSIVE SeqsUpTo(_, _)
SeqsUpTo(S, n) ==
    IF n = 0 THEN {<<>>}
    ELSE LET shorter == SeqsUpTo(S, n - 1)
         IN shorter \cup {Append(s, x) : s \in {t \in shorter : Len(t) = n - 1}, x \in S}

RECURSIVE Flatten(_)
Flatten(ss) == IF ss = <<>> THEN <<>> ELSE Head(ss) \o Flatten(Tail(ss))

(***************************************************************************)
(* dfa.rs: State                                                           *)
(***************************************************************************)
START == 0

\* RangeInclusive<Sym> paired with the target state: (lo..=hi, to)
Range(lo, hi) == [lo |-> lo, hi |-> hi]
RangeContains(range, symbol) == range.lo <= symbol /\ symbol <= range.hi

State_new(accepting) == [transitions |-> <<>>, accepting |-> accepting]

\* The first entry, in insertion order, whose range contains the symbol.
FirstMatch(transitions, symbol) ==
    SetMin({i \in 1..Len(transitions) : RangeContains(transitions[i].range, symbol)})

\* Variant: the sentinel is treated as matching the state's first entry.
State_transition_sentinel(state, symbol) ==
    IF is_some(symbol)
    THEN IF \E i \in 1..Len(state.transitions) :
                RangeContains(state.transitions[i].range, unwrap(symbol))
         THEN Some(state.transitions[FirstMatch(state.transitions, unwrap(symbol))].to)
         ELSE None
    ELSE IF state.transitions # <<>> THEN Some(state.transitions[1].to) ELSE None

\* Variant: the last entry whose range contains the symbol wins.
State_transition_last(state, symbol) ==
    IF is_some(symbol)
       /\ \E i \in 1..Len(state.transitions) :
             RangeContains(state.transitions[i].range, unwrap(symbol))
    THEN Some(state.transitions[
             SetMax({i \in 1..Len(state.transitions) :
                        RangeContains(state.transitions[i].range, unwrap(symbol))})].to)
    ELSE None

State_transition(state, symbol) ==
    IF is_some(symbol)
       /\ \E i \in 1..Len(state.transitions) :
             RangeContains(state.transitions[i].range, unwrap(symbol))
    THEN Some(state.transitions[FirstMatch(state.transitions, unwrap(symbol))].to)
    ELSE None

(***************************************************************************)
(* dfa.rs: Automaton                                                       *)
(***************************************************************************)
is_alive(a) == is_some(a.current_state)
is_previous_accepting(a) == a.previous_accepting

\* Variant: previous_accepting is read after the move instead of before it.
Automaton_transition_after(a, symbol) ==
    LET next == IF is_some(a.current_state)
                THEN State_transition(a.states[unwrap(a.current_state) + 1], symbol)
                ELSE a.current_state
    IN [a EXCEPT
           !.previous_accepting =
               IF is_some(next) THEN a.states[unwrap(next) + 1].accepting ELSE FALSE,
           !.current_state = next]

\* Variant: a dead automaton starts over from the start state.
Automaton_transition_restart(a, symbol) ==
    [a EXCEPT
        !.previous_accepting =
            IF is_some(a.current_state)
            THEN a.states[unwrap(a.current_state) + 1].accepting
            ELSE FALSE,
        !.current_state =
            IF is_some(a.current_state)
            THEN State_transition(a.states[unwrap(a.current_state) + 1], symbol)
            ELSE State_transition(a.states[START + 1], symbol)]

\* Variant: previous_accepting is left as it is on a dead automaton.
Automaton_transition_sticky(a, symbol) ==
    [a EXCEPT
        !.previous_accepting =
            IF is_some(a.current_state)
            THEN a.states[unwrap(a.current_state) + 1].accepting
            ELSE @,
        !.current_state =
            IF is_some(a.current_state)
            THEN State_transition(a.states[unwrap(a.current_state) + 1], symbol)
            ELSE a.current_state]

Automaton_transition(a, symbol) ==
    [a EXCEPT
        !.previous_accepting =
            IF is_some(a.current_state)
            THEN a.states[unwrap(a.current_state) + 1].accepting
            ELSE FALSE,
        !.current_state =
            IF is_some(a.current_state)
            THEN State_transition(a.states[unwrap(a.current_state) + 1], symbol)
            ELSE a.current_state]

\* Variant: reset leaves previous_accepting as it is.
Automaton_reset_keep(a) == [a EXCEPT !.current_state = Some(START)]

Automaton_reset(a) ==
    [a EXCEPT !.current_state = Some(START), !.previous_accepting = FALSE]

(***************************************************************************)
(* dfa.rs: AutomatonBuilder.  A panic is recorded in the field `panic`     *)
(* (the message's subject), "" while the builder is usable.                *)
(***************************************************************************)
AutomatonBuilder_new == [states |-> <<State_new(FALSE)>>, panic |-> ""]

\* add_state returns the index Len(states) and pushes the state.
add_state_idx(b) == Len(b.states)
\* Variant: every added state is accepting.
add_state_accepting(b, accepting) ==
    [b EXCEPT !.states = Append(@, State_new(TRUE))]

add_state(b, accepting) ==
    [b EXCEPT !.states = Append(@, State_new(accepting))]

\* Variant: the `to` check is off by one (> instead of >=).
add_transition_to_gt(b, from, to, symbols) ==
    IF from >= Len(b.states) THEN [b EXCEPT !.panic = "from"]
    ELSE IF to > Len(b.states) THEN [b EXCEPT !.panic = "to"]
    ELSE [b EXCEPT !.states[from + 1].transitions =
                        Append(@, [range |-> symbols, to |-> to])]

\* Variant: the `to` index is not checked.
add_transition_to_unchecked(b, from, to, symbols) ==
    IF from >= Len(b.states) THEN [b EXCEPT !.panic = "from"]
    ELSE [b EXCEPT !.states[from + 1].transitions =
                        Append(@, [range |-> symbols, to |-> to])]

add_transition(b, from, to, symbols) ==
    IF from >= Len(b.states) THEN [b EXCEPT !.panic = "from"]
    ELSE IF to >= Len(b.states) THEN [b EXCEPT !.panic = "to"]
    ELSE [b EXCEPT !.states[from + 1].transitions =
                        Append(@, [range |-> symbols, to |-> to])]

build(b) ==
    [states |-> b.states, current_state |-> Some(START), previous_accepting |-> FALSE]

\* keyword_automaton: the loop body for the i-th symbol of the keyword
\* (peek().is_none() is "no symbol follows").
RECURSIVE keyword_loop(_, _, _)
keyword_loop(b, keyword, i) ==
    IF i > Len(keyword) THEN b
    ELSE LET new_state_idx == add_state_idx(b)
             b1 == add_state(b, i = Len(keyword))
             b2 == add_transition(b1, new_state_idx - 1, new_state_idx,
                                  Range(keyword[i], keyword[i]))
         IN keyword_loop(b2, keyword, i + 1)

keyword_automaton(keyword) == build(keyword_loop(AutomatonBuilder_new, keyword, 1))

(***************************************************************************)
(* lexer.rs: TokenKind, Token                                              *)
(***************************************************************************)
unknown == "Unknown"
has_text(kind) == kind \in text_kinds

\* Variant: the text is attached whatever the kind.
Token_new_always(kind, text) == [kind |-> kind, text |-> Some(text)]

Token_new(kind, text) ==
    [kind |-> kind, text |-> IF has_text(kind) THEN Some(text) ELSE None]

(***************************************************************************)
(* lexer.rs: Lexer                                                         *)
(***************************************************************************)
\* (0..n).collect()
IndexVec(n) == [i \in 1..n |-> i - 1]

Lexer_new(automata) ==
    [automata |-> automata,
     active_automata |-> IndexVec(Len(automata)),
     token_text |-> <<>>]

\* Variant: the automata are reset but active_automata is not refilled.
reset_automata_keep_active(self) ==
    [self EXCEPT
        !.automata = [i \in 1..Len(self.automata) |->
                         [self.automata[i] EXCEPT !.dfa = Automaton_reset(@)]]]

reset_automata(self) ==
    [self EXCEPT
        !.automata = [i \in 1..Len(self.automata) |->
                         [self.automata[i] EXCEPT !.dfa = Automaton_reset(@)]],
        !.active_automata = IndexVec(Len(self.automata))]

\* Variant: active_automata is not filtered.
Retained_all(self) == self.active_automata

\* lines 27-28: retain the indices whose automaton is alive
Retained(self) ==
    SelectSeq(self.active_automata, LAMBDA idx : is_alive(self.automata[idx + 1].dfa))

\* lines 32-36: transition every active automaton
FeedActive(self, active, symbol) ==
    [i \in 1..Len(self.automata) |->
        IF \E j \in 1..Len(active) : active[j] = i - 1
        THEN [self.automata[i] EXCEPT !.dfa = Automaton_transition(@, symbol)]
        ELSE self.automata[i]]

\* Variant: the last accepting automaton wins instead of the first.
BoundaryKind_last(automata, active) ==
    LET acc == {j \in 1..Len(active) : is_previous_accepting(automata[active[j] + 1].dfa)}
    IN IF acc = {} THEN unknown ELSE automata[active[SetMax(acc)] + 1].kind

\* Variant: the first active automaton wins whether or not it was accepting.
BoundaryKind_any(automata, active) ==
    IF active = <<>> THEN unknown ELSE automata[active[1] + 1].kind

\* Variant: every automaton is consulted, also one that died at an earlier step.
BoundaryKind_stale(automata, active) ==
    LET acc == {i \in 1..Len(automata) : is_previous_accepting(automata[i].dfa)}
    IN IF acc = {} THEN unknown ELSE automata[SetMin(acc)].kind

\* lines 41-59: the kind of the first active automaton that was accepting,
\* K::unknown() if there is none
BoundaryKind(automata, active) ==
    LET acc == {j \in 1..Len(active) : is_previous_accepting(automata[active[j] + 1].dfa)}
    IN IF acc = {} THEN unknown ELSE automata[active[SetMin(acc)] + 1].kind

\* Variant: the symbol replaces the pending text instead of being pushed.
PushSymbol_replace(text, symbol) == IF is_some(symbol) THEN <<unwrap(symbol)>> ELSE text

\* Variant: the pending text is copied into the token and not cleared.
TextAfterTake_keep(text) == text

\* lines 47, 57: token_text.replace(vec![]) leaves the empty vector behind
TextAfterTake(text) == <<>>

\* Variant: a symbol is pushed only onto a text that already has one.
PushSymbol_nonempty(text, symbol) ==
    IF is_some(symbol) /\ text # <<>> THEN Append(text, unwrap(symbol)) ELSE text

\* lines 68-70
PushSymbol(text, symbol) == IF is_some(symbol) THEN Append(text, unwrap(symbol)) ELSE text

\* Variant: any_alive is accumulated with && from true (all alive).
AnyAlive_all(automata, active) ==
    \A j \in 1..Len(active) : is_alive(automata[active[j] + 1].dfa)

\* lines 30-36: whether an active automaton is alive after the symbol
AnyAlive(automata, active) ==
    \E j \in 1..Len(active) : is_alive(automata[active[j] + 1].dfa)

\* Variant: the boundary symbol is not applied again after the reset.
FeedAll_skip(automata, symbol) == automata

\* lines 63-65: the symbol is applied to every automaton
FeedAll(automata, symbol) ==
    [i \in 1..Len(automata) |->
        [automata[i] EXCEPT !.dfa = Automaton_transition(@, symbol)]]

\* step returns the lexer after the call and the Option<Token> it yields.
step(self, symbol) ==
    LET active == Retained(self)
        fedAutomata == FeedActive(self, active, symbol)
        any_alive == AnyAlive(fedAutomata, active)
    IN IF ~any_alive
       THEN LET token == Token_new(BoundaryKind(fedAutomata, active), self.token_text)
                reset == reset_automata([self EXCEPT !.automata = fedAutomata,
                                                     !.active_automata = active])
            IN [self |-> [automata |-> FeedAll(reset.automata, symbol),
                          active_automata |-> reset.active_automata,
                          token_text |-> PushSymbol(TextAfterTake(self.token_text), symbol)],
                token |-> Some(token)]
       ELSE [self |-> [automata |-> fedAutomata,
                       active_automata |-> active,
                       token_text |-> PushSymbol(self.token_text, symbol)],
             token |-> None]

(***************************************************************************)
(* Automata handed to the Lexer.  The pool is built through the builder    *)
(* API over the alphabet {1, 2, 3}; ident_dfa and the keyword automata of  *)
(* the tests are over bytes.                                               *)
(***************************************************************************)
Alphabet == {1, 2, 3}

\* start -first-> rest (accepting), rest -more-> rest
loop_dfa(first, more) ==
    LET b0 == AutomatonBuilder_new
        rest == add_state_idx(b0)
        b1 == add_state(b0, TRUE)
        b2 == add_transition(b1, START, rest, first)
        b3 == add_transition(b2, rest, rest, more)
    IN build(b3)

\* start has two overlapping ranges with different targets:
\* 1..2 -> middle (not accepting), 2..3 -> last (accepting); middle -1-> last
overlap_dfa ==
    LET b0 == AutomatonBuilder_new
        middle == add_state_idx(b0)
        b1 == add_state(b0, FALSE)
        last == add_state_idx(b1)
        b2 == add_state(b1, TRUE)
        b3 == add_transition(b2, START, middle, Range(1, 2))
        b4 == add_transition(b3, START, last, Range(2, 3))
        b5 == add_transition(b4, middle, last, Range(1, 1))
    IN build(b5)

RangePool ==
    { loop_dfa(Range(1, 2), Range(1, 3)),
      loop_dfa(Range(3, 3), Range(3, 3)),
      overlap_dfa }

Pool ==
    { keyword_automaton(<<>>),
      keyword_automaton(<<1>>),
      keyword_automaton(<<2>>),
      keyword_automaton(<<1, 2>>),
      keyword_automaton(<<1, 2, 1>>) } \cup RangePool

\* The kind registered with the automaton at each position of the vector.
PoolKinds == <<"KindA", "KindB", "KindC", "KindD">>

Registrations ==
    { [i \in 1..Len(ds) |-> [dfa |-> ds[i], kind |-> PoolKinds[i]]] :
        ds \in SeqsUpTo(Pool, MaxAutomata) }

\* The caller's has_text: each kind keeps its text under one choice and not
\* under the other.
TextKindChoices == { {"KindA", "KindC"}, {"KindB", "KindD", unknown} }

\* lexer.rs tests: ident_dfa over bytes
ident_dfa ==
    LET lowercase == Range(97, 122)
        uppercase == Range(65, 90)
        digit == Range(48, 57)
        underscore == Range(95, 95)
        b0 == AutomatonBuilder_new
        rest == add_state_idx(b0)
        b1 == add_state(b0, TRUE)
        b2 == add_transition(b1, START, rest, lowercase)
        b3 == add_transition(b2, START, rest, uppercase)
        b4 == add_transition(b3, START, rest, underscore)
        b5 == add_transition(b4, rest, rest, lowercase)
        b6 == add_transition(b5, rest, rest, uppercase)
        b7 == add_transition(b6, rest, rest, underscore)
        b8 == add_transition(b7, rest, rest, digit)
    IN build(b8)

\* b"while", b"if", b"("
Str_while == <<119, 104, 105, 108, 101>>
Str_if == <<105, 102>>
Str_paren == <<40>>
\* "if  while _neat1(cool 123f"
Input_get_tokens ==
    <<105, 102, 32, 32, 119, 104, 105, 108, 101, 32, 95, 110, 101, 97, 116, 49,
      40, 99, 111, 111, 108, 32, 49, 50, 51, 102>>
\* "_hello123"
Input_get_ident == <<95, 104, 101, 108, 108, 111, 49, 50, 51>>

Registered_get_tokens ==
    << [dfa |-> keyword_automaton(Str_while), kind |-> "While"],
       [dfa |-> keyword_automaton(Str_if), kind |-> "If"],
       [dfa |-> keyword_automaton(Str_paren), kind |-> "Paren"],
       [dfa |-> ident_dfa, kind |-> "Ident"] >>

Registered_get_ident == << [dfa |-> ident_dfa, kind |-> "Ident"] >>

\* TestLexerTokenKind::has_text: self == &Self::Ident
TestTextKinds == {"Ident"}

Suffixes(s) == {SubSeq(s, i, Len(s)) : i \in 1..Len(s)}

(***************************************************************************)
(* The scan: lex feeds every item of the iterator to step and yields the   *)
(* tokens step returns (flat_map over Option<Token>).  The iterator is a   *)
(* run of symbols followed by one sentinel: free symbols of the alphabet   *)
(* for a Lexer over the pool, a stretch of the test's input for a Lexer of *)
(* the tests.                                                              *)
(***************************************************************************)
NoDfa ==
    /\ builder = None
    /\ automaton = None
    /\ built = None
    /\ keyword_of = None
    /\ calls = <<>>
    /\ last_call = None

InitPool ==
    /\ registered \in Registrations
    /\ text_kinds \in TextKindChoices
    /\ script = None

InitTests ==
    /\ text_kinds = TestTextKinds
    /\ \/ /\ registered = Registered_get_tokens
          /\ \E s \in Suffixes(Input_get_tokens) : script = Some(s)
       \/ /\ registered = Registered_get_ident
          /\ \E s \in Suffixes(Input_get_ident) : script = Some(s)

Init ==
    /\ InitPool \/ InitTests
    /\ lexer = Lexer_new(registered)
    /\ fed = <<>>
    /\ out = <<>>
    /\ boundaries = <<>>
    /\ NoDfa

Ended == fed # <<>> /\ fed[Len(fed)] = None

\* One iteration of lex's flat_map closure on `symbol`.
Lex(symbol) ==
    LET r == step(lexer, symbol)
    IN /\ lexer' = r.self
       /\ fed' = Append(fed, symbol)
       /\ out' = out \o r.token
       /\ boundaries' =
            IF is_some(r.token)
            THEN Append(boundaries, [run |-> lexer.token_text, at |-> Len(fed) + 1])
            ELSE boundaries
       /\ UNCHANGED <<text_kinds, registered, script,
                      builder, automaton, built, keyword_of, calls, last_call>>

LexSymbol ==
    /\ script = None
    /\ ~Ended
    /\ Len(fed) < MaxItems - 1
    /\ \E s \in Alphabet : Lex(Some(s))

LexScript ==
    /\ is_some(script)
    /\ ~Ended
    /\ Len(fed) < Len(unwrap(script))
    /\ Lex(Some(unwrap(script)[Len(fed) + 1]))

LexSentinel ==
    /\ ~Ended
    /\ Lex(None)

Next == LexSymbol \/ LexScript \/ LexSentinel

Spec == Init /\ [][Next]_vars


(***************************************************************************)
(* Reference notions the properties are stated with.                       *)
(***************************************************************************)
\* The automaton after the symbols of w, one transition call each.
RECURSIVE Run(_, _)
Run(a, w) == IF w = <<>> THEN a ELSE Run(Automaton_transition(a, Some(Head(w))), Tail(w))

\* The automaton stayed alive after every symbol of w (dead is absorbing).
AliveOn(a, w) == is_alive(Run(a, w))

\* The automaton is in an accepting state after w.
InAccepting(a) == is_alive(a) /\ a.states[unwrap(a.current_state) + 1].accepting
Accepts(a, w) == InAccepting(Run(a, w))

Prefix(w, n) == SubSeq(w, 1, n)

\* The longest prefix of w on which some registered automaton stays alive
\* (the empty prefix when none survives the first symbol).
LongestLive(w) ==
    SetMax({0} \cup {n \in 1..Len(w) :
                        \E i \in 1..Len(registered) : AliveOn(registered[i].dfa, Prefix(w, n))})

Tokens == 1..Len(boundaries)
\* The position in `fed` of the first item of token k: the item that triggered
\* the previous boundary.
TokenFirst(k) == IF k = 1 THEN 1 ELSE boundaries[k - 1].at
\* The symbols fed from the previous boundary up to, not including, the item
\* that triggered token k's boundary.
TokenRun(k) == Flatten(SubSeq(fed, TokenFirst(k), boundaries[k].at - 1))
\* The input fed from token k's first item on.
Remaining(k) == Flatten(SubSeq(fed, TokenFirst(k), Len(fed)))
Acceptors(k) == {i \in 1..Len(registered) : Accepts(registered[i].dfa, TokenRun(k))}
Last(s) == s[Len(s)]

(***************************************************************************)
(* C1                                                                      *)
(***************************************************************************)
\* C1 (as claimed): every emitted token's length equals the longest prefix of
\* the input remaining at its start on which some registered automaton stays
\* alive after every symbol (for a Lexer with at least one automaton).
C1_MaximalMunch_Claimed ==
    registered # <<>> =>
        \A k \in Tokens : Len(boundaries[k].run) = LongestLive(Remaining(k))

\* C1 (amended): every emitted token's length equals that longest live prefix,
\* except that a token other than the first has length 1 when the prefix is
\* empty (a symbol no automaton can start on is emitted alone).
C1_MaximalMunch ==
    \A k \in Tokens :
        Len(boundaries[k].run) =
            IF k > 1 /\ LongestLive(Remaining(k)) = 0
            THEN 1
            ELSE LongestLive(Remaining(k))

\* A token of two symbols on which one automaton died after the first symbol
\* and another lived on, followed by a one-symbol token no automaton starts on.
C1_Witness ==
    \E k \in Tokens :
        /\ Len(boundaries[k].run) = 2
        /\ \E i, j \in 1..Len(registered) :
              /\ AliveOn(registered[i].dfa, Prefix(TokenRun(k), 1))
              /\ ~AliveOn(registered[i].dfa, TokenRun(k))
              /\ AliveOn(registered[j].dfa, TokenRun(k))
        /\ k + 1 \in Tokens
        /\ LongestLive(Remaining(k + 1)) = 0
        /\ Len(boundaries[k + 1].run) = 1

(***************************************************************************)
(* C2                                                                      *)
(***************************************************************************)
\* C2: when two or more automata are in an accepting state at the end of a
\* token's run, the token's kind is the kind registered with the lowest-index one.
C2_FirstRegistered ==
    \A k \in Tokens :
        Cardinality(Acceptors(k)) >= 2 =>
            out[k].kind = registered[SetMin(Acceptors(k))].kind

C2_Witness ==
    \E k \in Tokens :
        /\ Cardinality(Acceptors(k)) >= 2
        /\ out[k].kind = registered[1].kind
        /\ registered[2].kind # registered[1].kind

(***************************************************************************)
(* C3                                                                      *)
(***************************************************************************)
TakenRuns == [k \in Tokens |-> boundaries[k].run]

\* C3: after every step the runs taken at the boundaries followed by the
\* pending text are the symbols fed so far; once the sentinel is processed the
\* runs alone are the input.
C3_Lossless ==
    /\ Flatten(TakenRuns) \o lexer.token_text = Flatten(fed)
    /\ Ended => Flatten(TakenRuns) = Flatten(fed)

C3_Witness ==
    /\ Ended
    /\ Len(boundaries) >= 2
    /\ Len(Flatten(fed)) >= 3
    /\ Flatten(TakenRuns) = Flatten(fed)

(***************************************************************************)
(* C4                                                                      *)
(***************************************************************************)
\* C4: a run that no registered automaton accepts is emitted in full as a token
\* of kind unknown, and once the sentinel is processed every input symbol lies
\* in the run of an emitted token.
C4_UnknownFallback ==
    /\ \A k \in Tokens :
          Acceptors(k) = {} =>
              /\ out[k].kind = unknown
              /\ boundaries[k].run = TokenRun(k)
    /\ Len(out) = Len(boundaries)
    /\ Ended =>
          \A p \in 1..(Len(fed) - 1) :
              \E k \in Tokens : TokenFirst(k) <= p /\ p < boundaries[k].at

C4_Witness ==
    /\ Ended
    /\ \E k \in Tokens :
          /\ Acceptors(k) = {}
          /\ Len(TokenRun(k)) >= 2
          /\ out[k].kind = unknown

(***************************************************************************)
(* C5                                                                      *)
(***************************************************************************)
\* C5: no state has a transition for the sentinel; the step that processes the
\* sentinel leaves every automaton dead and emits a token carrying all the
\* pending text, leaving none; at most one token is emitted per input item.
C5_FinalFlush ==
    /\ \A i \in 1..Len(registered) :
          \A q \in 1..Len(registered[i].dfa.states) :
              State_transition(registered[i].dfa.states[q], None) = None
    /\ Len(out) <= Len(fed)
    /\ Ended =>
          /\ \A i \in 1..Len(lexer.automata) : ~is_alive(lexer.automata[i].dfa)
          /\ boundaries # <<>>
          /\ Last(boundaries).at = Len(fed)
          /\ Last(boundaries).run = TokenRun(Len(boundaries))
          /\ lexer.token_text = <<>>

C5_Witness ==
    /\ Ended
    /\ Len(fed) >= 3
    /\ Last(boundaries).at = Len(fed)
    /\ Len(Last(boundaries).run) >= 2
    /\ lexer.token_text = <<>>

(***************************************************************************)
(* C6                                                                      *)
(***************************************************************************)
\* C6: a token's text is present exactly when its kind has text, and is then
\* the symbols fed since the previous boundary, without the boundary symbol.
C6_TokenText ==
    \A k \in 1..Len(out) :
        /\ is_some(out[k].text) <=> has_text(out[k].kind)
        /\ is_some(out[k].text) => unwrap(out[k].text) = TokenRun(k)

C6_Witness ==
    /\ \E k \in 1..Len(out) :
          /\ has_text(out[k].kind)
          /\ is_some(out[k].text)
          /\ Len(unwrap(out[k].text)) >= 2
    /\ \E k \in 1..Len(out) : ~has_text(out[k].kind) /\ is_none(out[k].text)


(***************************************************************************)
(* C9                                                                      *)
(***************************************************************************)
SomeAll(w) == [i \in 1..Len(w) |-> Some(w[i])]
KindsOf(tokens) == [k \in 1..Len(tokens) |-> tokens[k].kind]

Expected_get_tokens ==
    <<"If", "Unknown", "Unknown", "While", "Unknown", "Ident", "Paren", "Ident",
      "Unknown", "Unknown", "Unknown", "Unknown", "Ident">>

Scanned_get_tokens ==
    /\ registered = Registered_get_tokens
    /\ fed = Append(SomeAll(Input_get_tokens), None)

\* C9: with while, if, ( and the identifier automaton registered in that order,
\* the bytes of "if  while _neat1(cool 123f" and one sentinel yield exactly the
\* 13 tokens If, Unknown, Unknown, While, Unknown, Ident, Paren, Ident,
\* Unknown, Unknown, Unknown, Unknown, Ident.
C9_Scenario1 == Scanned_get_tokens => KindsOf(out) = Expected_get_tokens

C9_Witness == Scanned_get_tokens /\ Len(out) = 13 /\ out[1].kind = "If"

(***************************************************************************)
(* C10                                                                     *)
(***************************************************************************)
\* C10: a Lexer with one automaton, of a kind with text, on a non-empty input
\* the automaton accepts as a whole and one sentinel yields exactly one token,
\* of that kind, whose text is the whole input.
C10_WholeInput ==
    ( /\ Len(registered) = 1
      /\ has_text(registered[1].kind)
      /\ Ended
      /\ Flatten(fed) # <<>>
      /\ Accepts(registered[1].dfa, Flatten(fed)) )
    => out = << [kind |-> registered[1].kind, text |-> Some(Flatten(fed))] >>

C10_Witness ==
    /\ registered = Registered_get_ident
    /\ fed = Append(SomeAll(Input_get_ident), None)
    /\ out = << [kind |-> "Ident", text |-> Some(Input_get_ident)] >>

(***************************************************************************)
(* C12                                                                     *)
(***************************************************************************)
\* The symbols fed since the last boundary, the boundary item included.
PendingRun ==
    Flatten(SubSeq(fed, IF boundaries = <<>> THEN 1 ELSE Last(boundaries).at, Len(fed)))
\* The automata still alive before the latest symbol of the pending run.
Survivors ==
    {i \in 1..Len(registered) :
        AliveOn(registered[i].dfa, Prefix(PendingRun, Len(PendingRun) - 1))}

\* C12: active_automata holds exactly the automata that were alive before the
\* latest symbol, in index order; a token's kind is that of the lowest-index
\* automaton that lived through the whole run and was accepting at its end,
\* and unknown if there is none, also when some automaton accepted a shorter
\* prefix of the run.
C12_NoBacktracking ==
    /\ lexer.active_automata = SelectSeq(IndexVec(Len(registered)),
                                         LAMBDA idx : idx + 1 \in Survivors)
    /\ \A k \in Tokens :
          out[k].kind = IF Acceptors(k) = {}
                        THEN unknown
                        ELSE registered[SetMin(Acceptors(k))].kind

\* A run no automaton accepts although one accepted a shorter prefix of it.
C12_Witness ==
    \E k \in Tokens :
        /\ Acceptors(k) = {}
        /\ out[k].kind = unknown
        /\ \E i \in 1..Len(registered) :
              \E n \in 1..(Len(TokenRun(k)) - 1) :
                  Accepts(registered[i].dfa, Prefix(TokenRun(k), n))

(***************************************************************************)
(* C17                                                                     *)
(***************************************************************************)
LastWasBoundary == boundaries # <<>> /\ Last(boundaries).at = Len(fed)
KillsAll(item) ==
    \A i \in 1..Len(registered) : ~is_alive(Automaton_transition(registered[i].dfa, item))

\* C17: after a step that reached a boundary active_automata is the full set
\* and every automaton is its freshly built self with the boundary item applied
\* once; when a boundary symbol kills every automaton from the start state, the
\* step for the next item emits an unknown token of exactly that symbol.
C17_BoundaryReapplied ==
    /\ LastWasBoundary =>
          /\ lexer.active_automata = IndexVec(Len(registered))
          /\ Len(lexer.automata) = Len(registered)
          /\ \A i \in 1..Len(registered) :
                /\ lexer.automata[i].kind = registered[i].kind
                /\ lexer.automata[i].dfa =
                      Automaton_transition(registered[i].dfa, fed[Len(fed)])
    /\ \A k \in Tokens :
          LET p == boundaries[k].at
          IN (is_some(fed[p]) /\ KillsAll(fed[p]) /\ Len(fed) > p) =>
                /\ k + 1 \in Tokens
                /\ boundaries[k + 1].at = p + 1
                /\ out[k + 1].kind = unknown
                /\ boundaries[k + 1].run = fed[p]

\* A token of at least one symbol whose boundary symbol no automaton starts
\* on, followed by the unknown token of that symbol.
C17_Witness ==
    \E k \in Tokens :
        /\ registered # <<>>
        /\ Len(boundaries[k].run) >= 1
        /\ Acceptors(k) # {}
        /\ is_some(fed[boundaries[k].at])
        /\ KillsAll(fed[boundaries[k].at])
        /\ k + 1 \in Tokens
        /\ out[k + 1].kind = unknown
        /\ boundaries[k + 1].run = fed[boundaries[k].at]

(***************************************************************************)
(* C18                                                                     *)
(***************************************************************************)
\* An active automaton is alive before the item and after it.
SurvivesStep(item) ==
    \E j \in 1..Len(lexer.active_automata) :
        LET a == lexer.automata[lexer.active_automata[j] + 1].dfa
        IN is_alive(a) /\ is_alive(Automaton_transition(a, item))

NonBoundaryFrame ==
    LET item == fed'[Len(fed')]
    IN (fed' # fed /\ SurvivesStep(item)) =>
          /\ out' = out
          /\ boundaries' = boundaries
          /\ is_some(item)
          /\ lexer'.token_text = Append(lexer.token_text, unwrap(item))
          /\ Len(lexer'.automata) = Len(lexer.automata)
          /\ \A i \in 1..Len(lexer.automata) :
                /\ lexer'.automata[i].kind = lexer.automata[i].kind
                /\ lexer'.automata[i].dfa =
                      IF is_alive(lexer.automata[i].dfa)
                      THEN Automaton_transition(lexer.automata[i].dfa, item)
                      ELSE lexer.automata[i].dfa

\* C18: a step after which an active automaton is still alive emits no token,
\* appends exactly its symbol to token_text, applies the symbol once to the
\* automata that were alive (none is reset) and leaves the automata that were
\* already dead as they were.
C18_NonBoundaryFrame == [][NonBoundaryFrame]_vars

\* After a non-boundary step: an automaton that died two symbols ago still
\* shows the acceptance it died with, beside one that is alive.
C18_Witness ==
    /\ ~LastWasBoundary
    /\ Len(lexer.token_text) >= 3
    /\ \E i, j \in 1..Len(lexer.automata) :
          /\ ~AliveOn(registered[i].dfa, Prefix(lexer.token_text, Len(lexer.token_text) - 1))
          /\ ~is_alive(lexer.automata[i].dfa)
          /\ is_previous_accepting(lexer.automata[i].dfa)
          /\ is_alive(lexer.automata[j].dfa)

(***************************************************************************)
(* The scan continued past a sentinel: step is called with further items,  *)
(* symbols or sentinels, after an item that was the sentinel.              *)
(***************************************************************************)
LexAfterSentinel ==
    /\ script = None
    /\ Ended
    /\ Len(fed) < MaxItems - 1
    /\ \E item \in {Some(s) : s \in Alphabet} \cup {None} : Lex(item)

RestartNext == LexSymbol \/ LexScript \/ LexSentinel \/ LexAfterSentinel

RestartSpec == Init /\ [][RestartNext]_vars

(***************************************************************************)
(* C19                                                                     *)
(***************************************************************************)
\* No sentinel was fed before the latest item.
NoEarlierSentinel == \A p \in 1..(Len(fed) - 1) : is_some(fed[p])

\* C19: a token with an empty run is emitted only by the first step or by the
\* step after a sentinel; the first step emits a token, empty and of kind
\* unknown, exactly when the first item kills every automaton from the start
\* state; with no sentinel before the latest item no other token is empty.
C19_EmptyTokens ==
    /\ \A k \in Tokens :
          boundaries[k].run = <<>> =>
              \/ boundaries[k].at = 1
              \/ fed[boundaries[k].at - 1] = None
    /\ fed # <<>> =>
          /\ (boundaries # <<>> /\ boundaries[1].at = 1) = KillsAll(fed[1])
          /\ (boundaries # <<>> /\ boundaries[1].at = 1) =>
                boundaries[1].run = <<>> /\ out[1].kind = unknown
    /\ NoEarlierSentinel =>
          \A k \in Tokens : boundaries[k].run = <<>> => k = 1 /\ boundaries[k].at = 1

\* An empty first token, the token of the symbol that caused it, and the
\* empty token of the step after the sentinel.
C19_Witness ==
    /\ registered # <<>>
    /\ Len(boundaries) = 3
    /\ boundaries[1].at = 1
    /\ boundaries[1].run = <<>>
    /\ boundaries[2].run # <<>>
    /\ fed[boundaries[2].at] = None
    /\ boundaries[3].at = boundaries[2].at + 1
    /\ boundaries[3].run = <<>>
    /\ out[3].kind = unknown

(***************************************************************************)
(* One automaton driven on its own through transition and reset, as in     *)
(* dfa.rs's test_keyword.                                                  *)
(***************************************************************************)
NoLexer ==
    /\ registered = <<>>
    /\ lexer = Lexer_new(registered)
    /\ text_kinds = {}
    /\ script = None
    /\ fed = <<>>
    /\ out = <<>>
    /\ boundaries = <<>>

DfaInit ==
    /\ \/ \E S \in SeqsUpTo(Alphabet, MaxKeyword) :
             /\ built = Some(keyword_automaton(S))
             /\ keyword_of = Some(S)
       \/ \E a \in RangePool :
             /\ built = Some(a)
             /\ keyword_of = None
    /\ automaton = built
    /\ builder = None
    /\ calls = <<>>
    /\ last_call = None
    /\ NoLexer

Transition(symbol) ==
    /\ Len(calls) < MaxCalls
    /\ automaton' = Some(Automaton_transition(unwrap(automaton), symbol))
    /\ calls' = Append(calls, [op |-> "transition", symbol |-> symbol])
    /\ UNCHANGED <<lexer, text_kinds, registered, script, fed, out, boundaries,
                   builder, built, keyword_of, last_call>>

TransitionSymbol == \E s \in Alphabet : Transition(Some(s))
TransitionSentinel == Transition(None)

Reset ==
    /\ Len(calls) < MaxCalls
    /\ automaton' = Some(Automaton_reset(unwrap(automaton)))
    /\ calls' = Append(calls, [op |-> "reset", symbol |-> None])
    /\ UNCHANGED <<lexer, text_kinds, registered, script, fed, out, boundaries,
                   builder, built, keyword_of, last_call>>

DfaNext == TransitionSymbol \/ TransitionSentinel \/ Reset

DfaSpec == DfaInit /\ [][DfaNext]_vars

\* The automaton after the calls cs, in order.
RECURSIVE Replay(_, _)
Replay(a, cs) ==
    IF cs = <<>> THEN a
    ELSE Replay(IF Head(cs).op = "reset"
                THEN Automaton_reset(a)
                ELSE Automaton_transition(a, Head(cs).symbol),
                Tail(cs))

TransitionCalls(w) == [i \in 1..Len(w) |-> [op |-> "transition", symbol |-> w[i]]]

(***************************************************************************)
(* C7                                                                      *)
(***************************************************************************)
\* The calls so far are transition(Some(s)) for the first n symbols of S.
FedPrefix(S, n) == calls = TransitionCalls(SomeAll(Prefix(S, n)))
\* The calls so far are transition(Some(s)) for each s of S, then transition(None).
FedThenSentinel(S) == calls = TransitionCalls(Append(SomeAll(S), None))

KeywordFeed(S) ==
    /\ \A n \in 1..Len(S) :
          FedPrefix(S, n) =>
              /\ is_alive(unwrap(automaton))
              /\ ~is_previous_accepting(unwrap(automaton))
    /\ FedThenSentinel(S) =>
          /\ is_previous_accepting(unwrap(automaton))
          /\ ~is_alive(unwrap(automaton))

\* C7 (as claimed): for any sequence S, after each symbol of S the keyword
\* automaton of S is alive and not previous-accepting, and after the sentinel
\* that follows S it is previous-accepting and dead.
C7_Keyword_Claimed == is_some(keyword_of) => KeywordFeed(unwrap(keyword_of))

\* C7 (amended): the same for any non-empty sequence S.
C7_Keyword ==
    (is_some(keyword_of) /\ unwrap(keyword_of) # <<>>) => KeywordFeed(unwrap(keyword_of))

C7_Witness ==
    /\ is_some(keyword_of)
    /\ Len(unwrap(keyword_of)) = 3
    /\ FedThenSentinel(unwrap(keyword_of))
    /\ is_previous_accepting(unwrap(automaton))
    /\ ~is_alive(unwrap(automaton))

(***************************************************************************)
(* C8                                                                      *)
(***************************************************************************)
Resets == {i \in 1..Len(calls) : calls[i].op = "reset"}

\* C8: after any calls, reset() leaves the automaton exactly as build()
\* returned it, and the transition calls made since the last reset() leave it
\* as they leave the freshly built automaton.
C8_ResetEquivalence ==
    Resets # {} =>
        /\ Last(calls).op = "reset" => automaton = built
        /\ unwrap(automaton) =
              Replay(unwrap(built), SubSeq(calls, SetMax(Resets) + 1, Len(calls)))

\* reset() on an automaton that a transition killed while it was accepting,
\* and a transition after it.
C8_Witness ==
    /\ Len(calls) >= 4
    /\ calls[3].op = "reset"
    /\ ~is_alive(Replay(unwrap(built), SubSeq(calls, 1, 2)))
    /\ is_previous_accepting(Replay(unwrap(built), SubSeq(calls, 1, 2)))
    /\ calls[4].op = "transition"
    /\ is_alive(unwrap(automaton))

(***************************************************************************)
(* C13                                                                     *)
(***************************************************************************)
\* The step is a call of transition (on the automaton driven on its own).
IsTransitionCall == calls' # calls /\ Last(calls').op = "transition"
IsResetCall == calls' # calls /\ Last(calls').op = "reset"

DeadAbsorbing ==
    /\ (IsTransitionCall /\ ~is_alive(unwrap(automaton))) => ~is_alive(unwrap(automaton'))
    /\ IsResetCall => is_alive(unwrap(automaton'))
    /\ (~is_alive(unwrap(automaton)) /\ is_alive(unwrap(automaton'))) => IsResetCall

\* C13: a transition call on a dead automaton, with any symbol or the
\* sentinel, leaves it dead; reset() leaves it alive, and nothing else makes a
\* dead automaton alive.
C13_DeadAbsorbing == [][DeadAbsorbing]_vars

\* Dead after the first call, still dead after a second transition, alive
\* after the reset() that follows.
C13_Witness ==
    /\ Len(calls) >= 3
    /\ calls[1].op = "transition"
    /\ calls[2].op = "transition"
    /\ is_some(calls[2].symbol)
    /\ ~is_alive(Replay(unwrap(built), SubSeq(calls, 1, 1)))
    /\ ~is_alive(Replay(unwrap(built), SubSeq(calls, 1, 2)))
    /\ calls[3].op = "reset"
    /\ Len(calls) = 3
    /\ is_alive(unwrap(automaton))

(***************************************************************************)
(* C14                                                                     *)
(***************************************************************************)
AcceptanceSnapshot ==
    /\ IsTransitionCall =>
          is_previous_accepting(unwrap(automaton')) = InAccepting(unwrap(automaton))
    /\ (calls' # calls
        /\ ~is_alive(unwrap(automaton'))
        /\ is_previous_accepting(unwrap(automaton'))) =>
          IsTransitionCall /\ is_alive(unwrap(automaton))

\* C14: after a transition call is_previous_accepting() is the accepting flag
\* of the state held before the call, false if the automaton was dead before
\* it; a dead automaton shows is_previous_accepting() only directly after the
\* transition that killed it.
C14_AcceptanceSnapshot == [][AcceptanceSnapshot]_vars

\* A transition on an automaton that died in an accepting state: the
\* acceptance it died with is gone.
C14_Witness ==
    /\ Len(calls) >= 2
    /\ Last(calls).op = "transition"
    /\ ~is_alive(Replay(unwrap(built), SubSeq(calls, 1, Len(calls) - 1)))
    /\ is_previous_accepting(Replay(unwrap(built), SubSeq(calls, 1, Len(calls) - 1)))
    /\ ~is_previous_accepting(unwrap(automaton))
    /\ ~is_alive(unwrap(automaton))

(***************************************************************************)
(* C15                                                                     *)
(***************************************************************************)
\* The entries of the state's list whose range contains the present symbol.
Matching(state, symbol) ==
    {i \in 1..Len(state.transitions) :
        is_some(symbol) /\ RangeContains(state.transitions[i].range, unwrap(symbol))}

TransitionPrecedence ==
    (IsTransitionCall /\ is_alive(unwrap(automaton))) =>
        LET a == unwrap(automaton)
            state == a.states[unwrap(a.current_state) + 1]
            m == Matching(state, Last(calls').symbol)
        IN IF m = {}
           THEN ~is_alive(unwrap(automaton'))
           ELSE unwrap(automaton').current_state = Some(state.transitions[SetMin(m)].to)

\* C15: a transition call on a live automaton moves it to the target of the
\* earliest entry of the current state's list whose range contains the symbol,
\* and kills it when no entry does or the symbol is the sentinel.
C15_TransitionPrecedence == [][TransitionPrecedence]_vars

\* A symbol contained in two entries of the start state that name different
\* targets: the automaton is at the target of the earlier one.
C15_Witness ==
    /\ Len(calls) = 1
    /\ calls[1].op = "transition"
    /\ LET state == unwrap(built).states[START + 1]
           m == Matching(state, calls[1].symbol)
       IN /\ \E i, j \in m : i < j /\ state.transitions[i].to # state.transitions[j].to
          /\ unwrap(automaton).current_state = Some(state.transitions[SetMin(m)].to)

(***************************************************************************)
(* C16                                                                     *)
(***************************************************************************)
\* Every call so far is transition(Some(s)).
AllSymbolCalls ==
    \A i \in 1..Len(calls) : calls[i].op = "transition" /\ is_some(calls[i].symbol)
\* The symbols of those calls.
FedSymbols == [i \in 1..Len(calls) |-> unwrap(calls[i].symbol)]
IsPrefix(T, S) == Len(T) <= Len(S) /\ T = Prefix(S, Len(T))

\* One state per symbol after the start state, state i moving only on S[i] to
\* state i + 1, the last state without transitions.
LinearChain(a, S) ==
    /\ Len(a.states) = Len(S) + 1
    /\ \A i \in 1..Len(S) :
          a.states[i].transitions = <<[range |-> Range(S[i], S[i]), to |-> i]>>
    /\ a.states[Len(S) + 1].transitions = <<>>

KeywordExact_Claimed(S) ==
    /\ LinearChain(unwrap(built), S)
    /\ \A i \in 1..(Len(S) + 1) : unwrap(built).states[i].accepting = (i = Len(S) + 1)
    /\ AllSymbolCalls =>
          /\ is_alive(unwrap(automaton)) = IsPrefix(FedSymbols, S)
          /\ InAccepting(unwrap(automaton)) = (FedSymbols = S)

KeywordExact(S) ==
    /\ LinearChain(unwrap(built), S)
    /\ \A i \in 1..(Len(S) + 1) :
          unwrap(built).states[i].accepting = (i = Len(S) + 1 /\ S # <<>>)
    /\ AllSymbolCalls =>
          /\ is_alive(unwrap(automaton)) = IsPrefix(FedSymbols, S)
          /\ InAccepting(unwrap(automaton)) = (FedSymbols = S /\ S # <<>>)

\* C16 (as claimed): the keyword automaton of S is a linear chain whose final
\* state alone is accepting; after the symbols T it is alive iff T is a prefix
\* of S and in an accepting state iff T = S.
C16_KeywordExact_Claimed ==
    is_some(keyword_of) => KeywordExact_Claimed(unwrap(keyword_of))

\* C16 (amended): the same, except that the keyword automaton of the empty
\* sequence has no accepting state and is never in one.
C16_KeywordExact ==
    is_some(keyword_of) => KeywordExact(unwrap(keyword_of))

\* The whole keyword fed, then one symbol more.
C16_Witness ==
    /\ is_some(keyword_of)
    /\ Len(unwrap(keyword_of)) = 3
    /\ AllSymbolCalls
    /\ Len(FedSymbols) = 4
    /\ Prefix(FedSymbols, 3) = unwrap(keyword_of)
    /\ InAccepting(Replay(unwrap(built), SubSeq(calls, 1, 3)))
    /\ ~is_alive(unwrap(automaton))

(***************************************************************************)
(* An automaton constructed call by call through AutomatonBuilder (or by   *)
(* keyword_automaton), then driven through transition and reset.  A panic  *)
(* ends the construction.  The calls on the built automaton are not        *)
(* recorded here.                                                          *)
(***************************************************************************)
\* The ranges handed to add_transition.
BuilderRanges == {Range(1, 2), Range(2, 3)}

RECURSIVE SumLen(_)
SumLen(ss) == IF ss = <<>> THEN 0 ELSE Len(Head(ss).transitions) + SumLen(Tail(ss))
\* The successful add_state and add_transition calls a builder has taken.
CallsTaken(b) == Len(b.states) - 1 + SumLen(b.states)

Building ==
    /\ is_some(builder)
    /\ unwrap(builder).panic = ""
    /\ CallsTaken(unwrap(builder)) < MaxBuilderCalls

BuilderInit ==
    /\ builder = Some(AutomatonBuilder_new)
    /\ automaton = None
    /\ built = None
    /\ keyword_of = None
    /\ calls = <<>>
    /\ last_call = None
    /\ NoLexer

AddState ==
    /\ Building
    /\ \E accepting \in BOOLEAN :
          /\ builder' = Some(add_state(unwrap(builder), accepting))
          /\ last_call' = Some([op |-> "add_state", accepting |-> accepting,
                                idx |-> add_state_idx(unwrap(builder)),
                                before |-> unwrap(builder).states])
    /\ UNCHANGED <<lexer, text_kinds, registered, script, fed, out, boundaries,
                   automaton, built, keyword_of, calls>>

AddTransition ==
    /\ Building
    /\ \E from \in 0..MaxBuilderCalls, to \in 0..MaxBuilderCalls, symbols \in BuilderRanges :
          /\ builder' = Some(add_transition(unwrap(builder), from, to, symbols))
          /\ last_call' = Some([op |-> "add_transition", from |-> from, to |-> to,
                                symbols |-> symbols,
                                before |-> unwrap(builder).states])
    /\ UNCHANGED <<lexer, text_kinds, registered, script, fed, out, boundaries,
                   automaton, built, keyword_of, calls>>

\* build(self) consumes the builder.
Build ==
    /\ is_some(builder)
    /\ unwrap(builder).panic = ""
    /\ automaton' = Some(build(unwrap(builder)))
    /\ built' = automaton'
    /\ builder' = None
    /\ last_call' = Some([op |-> "build", before |-> unwrap(builder).states])
    /\ UNCHANGED <<lexer, text_kinds, registered, script, fed, out, boundaries,
                   keyword_of, calls>>

\* keyword_automaton makes and consumes a builder of its own.
BuildKeyword ==
    /\ builder = Some(AutomatonBuilder_new)
    /\ \E S \in SeqsUpTo(Alphabet, MaxKeyword) :
          /\ automaton' = Some(keyword_automaton(S))
          /\ keyword_of' = Some(S)
    /\ built' = automaton'
    /\ builder' = None
    /\ last_call' = Some([op |-> "keyword_automaton", before |-> unwrap(builder).states])
    /\ UNCHANGED <<lexer, text_kinds, registered, script, fed, out, boundaries, calls>>

BuiltTransition ==
    /\ is_some(automaton)
    /\ \E symbol \in {Some(x) : x \in Alphabet} \cup {None} :
          automaton' = Some(Automaton_transition(unwrap(automaton), symbol))
    /\ UNCHANGED <<lexer, text_kinds, registered, script, fed, out, boundaries,
                   builder, built, keyword_of, calls, last_call>>

BuiltReset ==
    /\ is_some(automaton)
    /\ automaton' = Some(Automaton_reset(unwrap(automaton)))
    /\ UNCHANGED <<lexer, text_kinds, registered, script, fed, out, boundaries,
                   builder, built, keyword_of, calls, last_call>>

BuilderNext ==
    AddState \/ AddTransition \/ Build \/ BuildKeyword \/ BuiltTransition \/ BuiltReset

BuilderSpec == BuilderInit /\ [][BuilderNext]_vars

(***************************************************************************)
(* C11                                                                     *)
(***************************************************************************)
AfterAddTransition == is_some(last_call) /\ unwrap(last_call).op = "add_transition"
Panicked == unwrap(builder).panic # ""

\* C11: add_transition(from, to, range) panics exactly when from or to is not
\* below the number of states; a panicking call adds no transition; any other
\* call appends (range, to) at the end of state from's list and changes
\* nothing else.
C11_BuilderFailFast ==
    AfterAddTransition =>
        LET c == unwrap(last_call)
            states == unwrap(builder).states
        IN /\ Panicked <=> (c.from >= Len(c.before) \/ c.to >= Len(c.before))
           /\ Panicked => states = c.before
           /\ ~Panicked =>
                 /\ Len(states) = Len(c.before)
                 /\ \A q \in 1..Len(states) : q # c.from + 1 => states[q] = c.before[q]
                 /\ states[c.from + 1].accepting = c.before[c.from + 1].accepting
                 /\ states[c.from + 1].transitions =
                       Append(c.before[c.from + 1].transitions,
                              [range |-> c.symbols, to |-> c.to])

\* A call with `to` out of bounds on a builder that already has a transition.
C11_Witness ==
    /\ AfterAddTransition
    /\ Panicked
    /\ unwrap(last_call).from < Len(unwrap(last_call).before)
    /\ unwrap(last_call).to >= Len(unwrap(last_call).before)
    /\ SumLen(unwrap(last_call).before) >= 1
    /\ unwrap(builder).states = unwrap(last_call).before

(***************************************************************************)
(* C20                                                                     *)
(***************************************************************************)
TargetsValid(states) ==
    \A q \in 1..Len(states) :
        \A t \in 1..Len(states[q].transitions) :
            states[q].transitions[t].to \in 0..(Len(states) - 1)

\* C20: in a builder that has not panicked and in every automaton made by
\* build or keyword_automaton every transition target is a valid state index,
\* keyword_automaton's own builder never panics, and after any transition and
\* reset calls current_state is None or a valid index of the state table.
C20_IndexSafety ==
    /\ (is_some(builder) /\ ~Panicked) => TargetsValid(unwrap(builder).states)
    /\ is_some(automaton) =>
          /\ TargetsValid(unwrap(automaton).states)
          /\ unwrap(automaton).states = unwrap(built).states
          /\ is_some(unwrap(automaton).current_state) =>
                unwrap(unwrap(automaton).current_state)
                    \in 0..(Len(unwrap(automaton).states) - 1)
    /\ is_some(keyword_of) =>
          keyword_loop(AutomatonBuilder_new, unwrap(keyword_of), 1).panic = ""

\* An automaton of the builder that a transition moved to its second state.
C20_Witness ==
    /\ is_some(automaton)
    /\ is_none(keyword_of)
    /\ Len(unwrap(automaton).states) >= 2
    /\ unwrap(automaton).current_state = Some(1)

====
